---- MODULE Spec2Model ----
(***************************************************************************)
(* Model of catalyst/data/reader.py: the leaf readers (ImageReader,        *)
(* ScalarReader, TextReader) and ReaderCompose.  A caller holds one record *)
(* (row) and one pipeline built over a list of reader objects, and invokes *)
(* the readers and the pipeline in any order.                              *)
(*                                                                         *)
(* Python values are tagged records of one shape.  Numbers are kept in     *)
(* halves (field n holds twice the number) so that 2.5 and -0.5 exist and  *)
(* int() truncation is something the model computes.                       *)
(***************************************************************************)
EXTENDS Integers, Sequences, FiniteSets

VARIABLES row, readers, mixins, floatIndex, out, first

vars == <<row, readers, mixins, floatIndex, out, first>>

(***************************** bounds **************************************)
\* largest one_hot_classes a ScalarReader is configured with
MaxClasses == 3
\* longest readers list of a pipeline
MaxReaders == 2
\* longest mixins list of a pipeline
MaxMixins == 2

(***************************** values **************************************)
NoneV == [t |-> "none", n |-> 0, s |-> "", b |-> "", a |-> <<>>]
NaNV == [t |-> "nan", n |-> 0, s |-> "", b |-> "", a |-> <<>>]
IntV(i) == [t |-> "int", n |-> 2 * i, s |-> "", b |-> "", a |-> <<>>]
\* the float h/2
FloatV(h) == [t |-> "float", n |-> h, s |-> "", b |-> "", a |-> <<>>]
StrV(x) == [t |-> "str", n |-> 0, s |-> x, b |-> "", a |-> <<>>]
\* a float32 array
VecV(x) == [t |-> "vec", n |-> 0, s |-> "", b |-> "", a |-> x]
\* a decoded image buffer: which file it was decoded from, and how
ImgV(name, base, gray) ==
  [t |-> "img", n |-> IF gray THEN 1 ELSE 0, s |-> name, b |-> base, a |-> <<>>]

IsNumber(v) == v.t \in {"int", "float"}

\* a dict with no entry
EmptyDict == [k \in {} |-> NoneV]
\* the dict display {k: v}
Dict1(k, v) == [x \in {k} |-> v]

(************************* outcomes of a call ******************************)
\* a call either returns a mapping or raises; trace lists the calls it made
Returned(m, tr) == [status |-> "ok", value |-> m, error |-> "", trace |-> tr]
Raised(e, tr) == [status |-> "raised", value |-> EmptyDict, error |-> e, trace |-> tr]

\* one call made by a handler: what was called, its position in its list,
\* and the argument mapping it was given
CallRec(fn, i, arg) == [fn |-> fn, idx |-> i, arg |-> arg]

(************************ numeric coercion *********************************)
IntTypes == {"int", "np_int64"}
FloatTypes == {"float", "np_float32"}
DTypes == IntTypes \cup FloatTypes

\* int(x) of a number kept in halves: truncation toward zero
Trunc(h) == IF h >= 0 THEN h \div 2 ELSE -((-h) \div 2)

\* the numeric strings a record may hold
ParsesAsInt(x) == x = "2"
ParsesAsFloat(x) == x \in {"2", "2.5"}
ParsedHalves(x) == IF x = "2" THEN 4 ELSE 5

\* dtype(x): [ok, v, error]
CoerceOk(v) == [ok |-> TRUE, v |-> v, error |-> ""]
CoerceErr(e) == [ok |-> FALSE, v |-> NoneV, error |-> e]

Coerce(dtype, x) ==
  CASE x.t = "none" ->
         IF dtype = "np_float32" THEN CoerceOk(NaNV) ELSE CoerceErr("TypeError")
    [] x.t = "str" ->
         IF dtype \in IntTypes
           THEN IF ParsesAsInt(x.s) THEN CoerceOk(IntV(ParsedHalves(x.s) \div 2))
                                    ELSE CoerceErr("ValueError")
           ELSE IF ParsesAsFloat(x.s) THEN CoerceOk(FloatV(ParsedHalves(x.s)))
                                      ELSE CoerceErr("ValueError")
    [] x.t = "int" ->
         IF dtype \in IntTypes THEN CoerceOk(x) ELSE CoerceOk(FloatV(x.n))
    [] x.t = "float" ->
         IF dtype \in IntTypes THEN CoerceOk(IntV(Trunc(x.n))) ELSE CoerceOk(x)
    [] OTHER -> CoerceErr("TypeError")

(************************** numpy array ************************************)
\* np.zeros(n, dtype=np.float32)
Zeros(n) == [i \in 1..n |-> 0]

\* what indexing an array with a float does: an IndexError, or (numpy
\* releases that only deprecated it) the truncated integer
FloatIndexPolicies == {"IndexError", "truncate"}

\* faulty variant of SetItem: an index past the end is skipped instead of raising
SetItem_skip(arr, scalar, policy) ==
  LET n == Len(arr)
      i == IF scalar.t = "int" THEN scalar.n \div 2 ELSE Trunc(scalar.n)
      j == IF i < 0 THEN i + n ELSE i
  IN IF scalar.t \notin {"int", "float"} THEN [ok |-> FALSE, a |-> arr]
     ELSE IF scalar.t = "float" /\ policy = "IndexError" THEN [ok |-> FALSE, a |-> arr]
     ELSE IF j < 0 \/ j >= n THEN [ok |-> TRUE, a |-> arr]
     ELSE [ok |-> TRUE, a |-> [arr EXCEPT ![j + 1] = 1]]

\* arr[scalar] = 1.0: [ok, a]
SetItem(arr, scalar, policy) ==
  LET n == Len(arr)
      i == IF scalar.t = "int" THEN scalar.n \div 2 ELSE Trunc(scalar.n)
      j == IF i < 0 THEN i + n ELSE i
  IN IF scalar.t \notin {"int", "float"} THEN [ok |-> FALSE, a |-> arr]
     ELSE IF scalar.t = "float" /\ policy = "IndexError" THEN [ok |-> FALSE, a |-> arr]
     ELSE IF j < 0 \/ j >= n THEN [ok |-> FALSE, a |-> arr]
     ELSE [ok |-> TRUE, a |-> [arr EXCEPT ![j + 1] = 1]]

(************************** row lookups ************************************)
\* faulty variant of Get: row.get(key) or default, which also replaces a falsy value
Get_or(r, key, default) ==
  IF key \in DOMAIN r /\ ~(IsNumber(r[key]) /\ r[key].n = 0) THEN r[key] ELSE default

\* row.get(key, default)
Get(r, key, default) == IF key \in DOMAIN r THEN r[key] ELSE default

(*************************** ScalarReader **********************************)
ScalarReaderInit(row_key, dict_key, dtype, default_value, one_hot_classes) ==
  [kind |-> "ScalarReader", row_key |-> row_key, dict_key |-> dict_key,
   dtype |-> dtype, default_value |-> default_value,
   one_hot_classes |-> one_hot_classes,
   datapath |-> NoneV, grayscale |-> FALSE, encode_fn |-> ""]

\* faulty variant of NonNegative: the test scalar >= 0 is left out
NonNegative_dropped(scalar) == IsNumber(scalar)

\* scalar >= 0 (a comparison with nan is False)
NonNegative(scalar) == IsNumber(scalar) /\ scalar.n >= 0

ScalarReader_call(self, r, policy) ==
  LET c == Coerce(self.dtype, Get(r, self.row_key, self.default_value))
      scalar == c.v
  IN IF ~c.ok THEN Raised(c.error, <<>>)
     ELSE IF self.one_hot_classes.t # "none" /\ scalar.t # "none" /\ NonNegative(scalar)
       THEN LET one_hot == SetItem(Zeros(self.one_hot_classes.n \div 2), scalar, policy)
            IN IF one_hot.ok THEN Returned(Dict1(self.dict_key, VecV(one_hot.a)), <<>>)
                             ELSE Raised("IndexError", <<>>)
       ELSE Returned(Dict1(self.dict_key, scalar), <<>>)

(**************************** TextReader ***********************************)
\* encode_fn when the caller passes none: lambda x: x
DefaultEncodeFn == "identity"
\* the encode functions a caller may inject
EncodeFns == {DefaultEncodeFn, "upper", "failing"}

\* str.upper on the strings a record may hold
Upper(x) == IF x = "hello" THEN "HELLO" ELSE x

\* encode_fn(text): [ok, v, error]
Encode(fn, text) ==
  CASE fn = DefaultEncodeFn -> CoerceOk(text)
    [] fn = "upper" -> IF text.t = "str" THEN CoerceOk(StrV(Upper(text.s)))
                                         ELSE CoerceErr("TypeError")
    [] OTHER -> CoerceErr("EncodeError")

TextReaderInit(row_key, dict_key, encode_fn) ==
  [kind |-> "TextReader", row_key |-> row_key, dict_key |-> dict_key,
   dtype |-> "", default_value |-> NoneV, one_hot_classes |-> NoneV,
   datapath |-> NoneV, grayscale |-> FALSE, encode_fn |-> encode_fn]

\* faulty variant of TextReader_call: row.get(row_key) instead of row[row_key]
TextReader_call_get(self, r) ==
  LET text == Get(r, self.row_key, NoneV)
      e == Encode(self.encode_fn, text)
      tr == <<CallRec("encode_fn", 1, Dict1("x", text))>>
  IN IF e.ok THEN Returned(Dict1(self.dict_key, e.v), tr)
             ELSE Raised(e.error, tr)

TextReader_call(self, r) ==
  IF self.row_key \notin DOMAIN r THEN Raised("KeyError", <<>>)
  ELSE LET text == r[self.row_key]
           e == Encode(self.encode_fn, text)
           tr == <<CallRec("encode_fn", 1, Dict1("x", text))>>
       IN IF e.ok THEN Returned(Dict1(self.dict_key, e.v), tr)
                  ELSE Raised(e.error, tr)

(**************************** ImageReader **********************************)
\* str(x) of the values a record holds under an image key
Digits == <<"0", "1", "2", "3", "4", "5", "6", "7", "8", "9">>
Str(x) ==
  IF x.t = "str" THEN x.s
  ELSE IF x.t = "int" /\ x.n \div 2 \in 0..9 THEN Digits[(x.n \div 2) + 1]
  ELSE "None"

\* the image files that exist, as <<base directory, name>>
Disk == {<<"", "cat.png">>, <<"data", "cat.png">>, <<"data", "7">>}

\* read_image(image_name, datapath=..., grayscale=...): [ok, v, error]
ReadImage(image_name, datapath, grayscale) ==
  LET base == IF datapath.t = "none" THEN "" ELSE datapath.s
  IN IF <<base, image_name>> \in Disk
       THEN CoerceOk(ImgV(image_name, base, grayscale))
       ELSE CoerceErr("FileNotFoundError")

ImageReaderInit(row_key, dict_key, datapath, grayscale) ==
  [kind |-> "ImageReader", row_key |-> row_key, dict_key |-> dict_key,
   dtype |-> "", default_value |-> NoneV, one_hot_classes |-> NoneV,
   datapath |-> datapath, grayscale |-> grayscale, encode_fn |-> ""]

ImageReader_call(self, r) ==
  IF self.row_key \notin DOMAIN r THEN Raised("KeyError", <<>>)
  ELSE LET image_name == Str(r[self.row_key])
           img == ReadImage(image_name, self.datapath, self.grayscale)
           tr == <<CallRec("read_image", 1,
                           [k \in {"image_name", "datapath", "grayscale"} |->
                              CASE k = "image_name" -> StrV(image_name)
                                [] k = "datapath" -> self.datapath
                                [] OTHER -> IntV(IF self.grayscale THEN 1 ELSE 0)])>>
       IN IF img.ok THEN Returned(Dict1(self.dict_key, img.v), tr)
                    ELSE Raised(img.error, tr)

(*************************** ReaderCompose *********************************)
\* faulty variant of Merge: {**b, **a}, the earlier entry wins
Merge_first_wins(a, b) ==
  [k \in DOMAIN a \cup DOMAIN b |-> IF k \in DOMAIN a THEN a[k] ELSE b[k]]

\* {**a, **b}
Merge(a, b) ==
  [k \in DOMAIN a \cup DOMAIN b |-> IF k \in DOMAIN b THEN b[k] ELSE a[k]]

\* fn(row) for a reader object fn
Reader_call(self, r, policy) ==
  CASE self.kind = "ImageReader" -> ImageReader_call(self, r)
    [] self.kind = "ScalarReader" -> ScalarReader_call(self, r, policy)
    [] OTHER -> TextReader_call(self, r)

\* x + y and x * y on values: [ok, v, error]
NumAdd(x, y) ==
  IF ~(IsNumber(x) /\ IsNumber(y)) THEN CoerceErr("TypeError")
  ELSE IF x.t = "int" /\ y.t = "int" THEN CoerceOk(IntV((x.n + y.n) \div 2))
  ELSE CoerceOk(FloatV(x.n + y.n))
NumDouble(x) == NumAdd(x, x)

\* the mixins a caller may pass: pure functions of the mapping
\*   inc   = lambda d: {"sum": d["out"] + 1}
\*   twice = lambda d: {"sum": d["sum"] * 2}
\*   swap  = lambda d: {"out": d["sum"]}
MixinFns == {"inc", "twice", "swap"}

Mixin_call(fn, d) ==
  LET key == IF fn = "inc" THEN "out" ELSE "sum"
      v == IF key \in DOMAIN d THEN d[key] ELSE NoneV
      e == CASE fn = "inc" -> NumAdd(v, IntV(1))
             [] fn = "twice" -> NumDouble(v)
             [] OTHER -> CoerceOk(v)
  IN IF key \notin DOMAIN d THEN Raised("KeyError", <<>>)
     ELSE IF ~e.ok THEN Raised(e.error, <<>>)
     ELSE Returned(Dict1(IF fn = "swap" THEN "out" ELSE "sum", e.v), <<>>)

\* faulty variant of ComposeMixins: result = fn(result), dropping what fn does not return
RECURSIVE ComposeMixins_replace(_, _, _, _)
ComposeMixins_replace(ms, i, result, trace) ==
  IF i > Len(ms) THEN Returned(result, trace)
  ELSE LET o == Mixin_call(ms[i], result)
           tr == Append(trace, CallRec("mixin", i, result))
       IN IF o.status = "raised" THEN Raised(o.error, tr)
          ELSE ComposeMixins_replace(ms, i + 1, o.value, tr)

\* for fn in self.mixins: result = {**result, **fn(result)}
RECURSIVE ComposeMixins(_, _, _, _)
ComposeMixins(ms, i, result, trace) ==
  IF i > Len(ms) THEN Returned(result, trace)
  ELSE LET o == Mixin_call(ms[i], result)
           tr == Append(trace, CallRec("mixin", i, result))
       IN IF o.status = "raised" THEN Raised(o.error, tr)
          ELSE ComposeMixins(ms, i + 1, Merge(result, o.value), tr)

\* for fn in self.readers: result = {**result, **fn(row)}
RECURSIVE ComposeReaders(_, _, _, _, _, _, _)
ComposeReaders(rs, ms, r, policy, i, result, trace) ==
  IF i > Len(rs) THEN ComposeMixins(ms, 1, result, trace)
  ELSE LET o == Reader_call(rs[i], r, policy)
           tr == Append(trace, CallRec("reader", i, r))
       IN IF o.status = "raised" THEN Raised(o.error, tr)
          ELSE ComposeReaders(rs, ms, r, policy, i + 1, Merge(result, o.value), tr)

\* faulty variant of ReaderCompose_call: a reader that raises is skipped
RECURSIVE ComposeReaders_swallow(_, _, _, _, _, _, _)
ComposeReaders_swallow(rs, ms, r, policy, i, result, trace) ==
  IF i > Len(rs) THEN ComposeMixins(ms, 1, result, trace)
  ELSE LET o == Reader_call(rs[i], r, policy)
           tr == Append(trace, CallRec("reader", i, r))
       IN ComposeReaders_swallow(rs, ms, r, policy, i + 1, Merge(result, o.value), tr)
ReaderCompose_call_swallow(rs, ms, r, policy) ==
  ComposeReaders_swallow(rs, ms, r, policy, 1, EmptyDict, <<>>)

ReaderCompose_call(rs, ms, r, policy) ==
  ComposeReaders(rs, ms, r, policy, 1, EmptyDict, <<>>)

(************************ the caller's state *******************************)
\* row        the record, held by the caller
\* readers    the reader objects, also the pipeline's self.readers
\* mixins     the pipeline's self.mixins
\* floatIndex what the installed numpy does with a float index
\* out        the last invocation: callee (0 the pipeline, i the i-th reader),
\*            its outcome, and the identity of the mapping object it returned
\* first      the first invocation made, and whether another callee has been
\*            invoked since
NoCall == [status |-> "none", value |-> EmptyDict, error |-> "", trace |-> <<>>]

SeqsUpTo(S, n) == UNION {[1..k -> S] : k \in 0..n}

\* records and ScalarReader configurations for a lone ScalarReader
ScalarValues ==
  {IntV(i) : i \in (-1)..(MaxClasses + 1)}
    \cup {FloatV(h) : h \in {-1, 3, 4, 2 * MaxClasses, 2 * MaxClasses + 1}}
    \cup {StrV(x) : x \in {"2", "2.5", "abc"}}
ScalarDefaults == {NoneV, IntV(-1), IntV(1), FloatV(4)}
ScalarClasses == {NoneV} \cup {IntV(n) : n \in 0..MaxClasses}

InitScalar ==
  /\ row \in {EmptyDict} \cup {Dict1("a", v) : v \in ScalarValues}
  /\ \E dt \in DTypes, d \in ScalarDefaults, n \in ScalarClasses :
       readers = <<ScalarReaderInit("a", "y", dt, d, n)>>
  /\ mixins = <<>>

\* records and configurations for a lone TextReader
InitText ==
  /\ row \in {EmptyDict} \cup {Dict1("t", v) : v \in {StrV("hello"), StrV("HELLO"), IntV(5)}}
  /\ \E fn \in EncodeFns : readers = <<TextReaderInit("t", "enc", fn)>>
  /\ mixins = <<>>

\* records and configurations for a lone ImageReader
InitImage ==
  /\ row \in {EmptyDict}
       \cup {Dict1("img", v) : v \in {StrV("cat.png"), StrV("gone.png"), IntV(7)}}
  /\ \E dp \in {NoneV, StrV("data")}, g \in BOOLEAN :
       readers = <<ImageReaderInit("img", "image", dp, g)>>
  /\ mixins = <<>>

\* records and reader objects for pipelines of several readers and mixins
RowFull ==
  [k \in {"a", "b", "t", "img"} |->
     CASE k = "a" -> IntV(1) [] k = "b" -> IntV(2)
       [] k = "t" -> StrV("hello") [] OTHER -> StrV("cat.png")]
RowGone == [RowFull EXCEPT !["img"] = StrV("gone.png")]
RowSparse == [k \in {"a", "img"} |-> IF k = "a" THEN IntV(1) ELSE StrV("gone.png")]

PipelineReaders ==
  {ScalarReaderInit("a", "out", "np_int64", NoneV, NoneV),
   ScalarReaderInit("b", "out", "np_int64", NoneV, NoneV),
   TextReaderInit("t", "txt", "upper"),
   ImageReaderInit("img", "image", NoneV, FALSE)}

InitPipeline ==
  /\ row \in {RowFull, RowGone, RowSparse}
  /\ readers \in SeqsUpTo(PipelineReaders, MaxReaders)
  /\ mixins \in SeqsUpTo(MixinFns, MaxMixins)

Init ==
  /\ InitScalar \/ InitText \/ InitImage \/ InitPipeline
  /\ floatIndex \in FloatIndexPolicies
  /\ out = [callee |-> -1, res |-> NoCall, id |-> 0]
  /\ first = [callee |-> -1, res |-> NoCall, between |-> FALSE]

\* the mapping objects the caller still holds
Live == {out.id} \ {0}
\* the identity of a newly created dict: one no live object has
NewDict(live) == CHOOSE i \in 1..(Cardinality(live) + 1) : i \notin live

\* the caller invokes callee and keeps what it returned
Invoke(callee, o) ==
  /\ out' = [callee |-> callee, res |-> o,
             id |-> IF o.status = "ok" THEN NewDict(Live) ELSE 0]
  /\ first' = IF first.callee = -1
                THEN [callee |-> callee, res |-> o, between |-> FALSE]
                ELSE IF callee # first.callee THEN [first EXCEPT !.between = TRUE]
                ELSE first

CallImageReader ==
  \E i \in 1..Len(readers) :
    /\ readers[i].kind = "ImageReader"
    /\ Invoke(i, ImageReader_call(readers[i], row))
    /\ UNCHANGED <<row, readers, mixins, floatIndex>>

\* faulty variant of CallScalarReader: row.pop(row_key, default) instead of row.get
CallScalarReader_pop ==
  \E i \in 1..Len(readers) :
    /\ readers[i].kind = "ScalarReader"
    /\ Invoke(i, ScalarReader_call(readers[i], row, floatIndex))
    /\ row' = [k \in DOMAIN row \ {readers[i].row_key} |-> row[k]]
    /\ UNCHANGED <<readers, mixins, floatIndex>>

CallScalarReader ==
  \E i \in 1..Len(readers) :
    /\ readers[i].kind = "ScalarReader"
    /\ Invoke(i, ScalarReader_call(readers[i], row, floatIndex))
    /\ UNCHANGED <<row, readers, mixins, floatIndex>>

CallTextReader ==
  \E i \in 1..Len(readers) :
    /\ readers[i].kind = "TextReader"
    /\ Invoke(i, TextReader_call(readers[i], row))
    /\ UNCHANGED <<row, readers, mixins, floatIndex>>

CallReaderCompose ==
  /\ Invoke(0, ReaderCompose_call(readers, mixins, row, floatIndex))
  /\ UNCHANGED <<row, readers, mixins, floatIndex>>

Next == CallImageReader \/ CallScalarReader \/ CallTextReader \/ CallReaderCompose

Spec == Init /\ [][Next]_vars

(***************************************************************************)
(* Properties.  `out` is the last invocation; the helpers below name its   *)
(* callee and the inputs it was given.                                     *)
(***************************************************************************)
LastIs(kind) == out.callee >= 1 /\ readers[out.callee].kind = kind
LastIsCompose == out.callee = 0
Self == readers[out.callee]
Present == Self.row_key \in DOMAIN row
\* dtype(row.get(row_key, default_value)) of the last ScalarReader call
Coerced == Coerce(Self.dtype, Get(row, Self.row_key, Self.default_value))
OneHotConfigured == Self.one_hot_classes.t # "none"
Classes == Self.one_hot_classes.n \div 2
ReturnedExactly(m) == out.res.status = "ok" /\ out.res.value = m
RaisedExactly(e) ==
  out.res.status = "raised" /\ out.res.error = e /\ out.res.value = EmptyDict /\ out.id = 0
\* the vector of length n with 1.0 at index k and 0 elsewhere
OneHot(n, k) == [i \in 1..n |-> IF i = k + 1 THEN 1 ELSE 0]

\* C4: with one_hot_classes = n and any numeric dtype, a coerced value v with
\* 0 <= v < n gives {dict_key: vector of length n, 1.0 at int(v), 0 elsewhere}.
C4_OneHotInRange ==
  (LastIs("ScalarReader") /\ OneHotConfigured /\ Coerced.ok /\ IsNumber(Coerced.v)
     /\ 0 <= Coerced.v.n /\ Coerced.v.n < 2 * Classes)
  => ReturnedExactly(Dict1(Self.dict_key, VecV(OneHot(Classes, Trunc(Coerced.v.n)))))

\* C5: with one_hot_classes configured, a negative coerced value is stored
\* raw under dict_key, with no error.
C5_NegativeBypass ==
  (LastIs("ScalarReader") /\ OneHotConfigured /\ Coerced.ok /\ IsNumber(Coerced.v)
     /\ Coerced.v.n < 0)
  => ReturnedExactly(Dict1(Self.dict_key, Coerced.v))

C5_Witness ==
  /\ LastIs("ScalarReader") /\ OneHotConfigured /\ Classes >= 2
  /\ Coerced.ok /\ Coerced.v = IntV(-1)
  /\ out.res.status = "ok" /\ out.res.value[Self.dict_key] = IntV(-1)

\* C8: with one_hot_classes = n, a coerced value v >= n ends the call in an
\* IndexError; no vector and no raw scalar is returned.
C8_OutOfRangeRaises ==
  (LastIs("ScalarReader") /\ OneHotConfigured /\ Coerced.ok /\ IsNumber(Coerced.v)
     /\ Coerced.v.n >= 2 * Classes)
  => RaisedExactly("IndexError")

C8_Witness ==
  /\ LastIs("ScalarReader") /\ OneHotConfigured /\ Classes >= 1
  /\ Coerced.ok /\ IsNumber(Coerced.v) /\ Coerced.v.n >= 2 * Classes
  /\ Self.dtype \in IntTypes
  /\ out.res.status = "raised"

\* one-hot encoding applies to the coerced value v
OneHotApplies(v) == OneHotConfigured /\ IsNumber(v) /\ v.n >= 0

\* C6 as stated: no missing-field error; an absent row_key with a default
\* configured gives {dict_key: dtype(default_value)}; a present row_key has its
\* own value coerced and the default ignored.
C6_DefaultAsStated ==
  LastIs("ScalarReader") =>
    /\ out.res.error # "KeyError"
    /\ (~Present /\ Self.default_value.t # "none") =>
         ReturnedExactly(Dict1(Self.dict_key, Coerce(Self.dtype, Self.default_value).v))
    /\ Present =>
         \A d \in ScalarDefaults :
           out.res = ScalarReader_call([Self EXCEPT !.default_value = d], row, floatIndex)

\* C6 amended: no missing-field error; an absent row_key with a default
\* configured gives the outcome of a record holding the default under row_key,
\* which is {dict_key: dtype(default_value)} when one-hot encoding does not
\* apply to it; a present row_key has its own value coerced and the default
\* ignored.
C6_DefaultSubstituted ==
  LastIs("ScalarReader") =>
    /\ out.res.error # "KeyError"
    /\ (~Present /\ Self.default_value.t # "none") =>
         LET cd == Coerce(Self.dtype, Self.default_value)
         IN /\ cd.ok
            /\ out.res = ScalarReader_call(Self, Dict1(Self.row_key, Self.default_value),
                                           floatIndex)
            /\ ~OneHotApplies(cd.v) => ReturnedExactly(Dict1(Self.dict_key, cd.v))
    /\ Present =>
         LET c == Coerce(Self.dtype, row[Self.row_key])
         IN /\ \A d \in ScalarDefaults :
                 out.res = ScalarReader_call([Self EXCEPT !.default_value = d], row,
                                             floatIndex)
            /\ ~c.ok => RaisedExactly(c.error)
            /\ (c.ok /\ ~OneHotApplies(c.v)) => ReturnedExactly(Dict1(Self.dict_key, c.v))

C6_Witness ==
  /\ LastIs("ScalarReader") /\ ~Present /\ ~OneHotConfigured
  /\ Self.default_value = FloatV(4) /\ Self.dtype = "float"
  /\ ReturnedExactly(Dict1("y", FloatV(4)))

\* C7: an absent row_key with no default and no one_hot_classes does not fail
\* and returns {dict_key: None}.
C7_UndefinedPassesThrough ==
  (LastIs("ScalarReader") /\ ~Present /\ Self.default_value.t = "none" /\ ~OneHotConfigured)
  => ReturnedExactly(Dict1(Self.dict_key, NoneV))

\* C9: a record holding row_key gives exactly {dict_key: encode_fn(record[row_key])}
\* (the value itself under the default encode_fn), or encode_fn's own error; a record lacking row_key gives a missing-key error
\* with encode_fn never called and no default substituted.
C9_TextReader ==
  LastIs("TextReader") =>
    /\ (Present /\ Self.encode_fn = DefaultEncodeFn) =>
         ReturnedExactly(Dict1(Self.dict_key, row[Self.row_key]))
    /\ IF Present
         THEN LET e == Encode(Self.encode_fn, row[Self.row_key])
              IN /\ out.res.trace = <<CallRec("encode_fn", 1, Dict1("x", row[Self.row_key]))>>
                 /\ e.ok => ReturnedExactly(Dict1(Self.dict_key, e.v))
                 /\ ~e.ok => RaisedExactly(e.error)
         ELSE RaisedExactly("KeyError") /\ out.res.trace = <<>>

C9_Witness ==
  /\ LastIs("TextReader") /\ Self.encode_fn = "upper"
  /\ Present /\ row[Self.row_key] = StrV("hello")
  /\ ReturnedExactly(Dict1("enc", StrV("HELLO")))

(************************* pipeline properties *****************************)
Max(S) == CHOOSE x \in S : \A y \in S : y <= x
\* what the i-th reader gives for the record, invoked on its own
ReaderOut(i) == Reader_call(readers[i], row, floatIndex)
\* the readers whose output holds key k
Producers(k) == {i \in 1..Len(readers) : k \in DOMAIN ReaderOut(i).value}
ReaderKeys == UNION {DOMAIN ReaderOut(i).value : i \in 1..Len(readers)}

\* C1: with no mixins, the pipeline returns exactly the keys some reader
\* produced, each holding the value of the last reader in list order that
\* produced it.
C1_LastWriterWins ==
  (LastIsCompose /\ mixins = <<>>
     /\ \A i \in 1..Len(readers) : ReaderOut(i).status = "ok")
  => /\ out.res.status = "ok"
     /\ DOMAIN out.res.value = ReaderKeys
     /\ \A k \in ReaderKeys : out.res.value[k] = ReaderOut(Max(Producers(k))).value[k]

C1_Witness ==
  /\ LastIsCompose /\ mixins = <<>> /\ Len(readers) = 2
  /\ readers[1].row_key = "a" /\ readers[2].row_key = "b"
  /\ readers[1].dict_key = "out" /\ readers[2].dict_key = "out"
  /\ ReturnedExactly(Dict1("out", IntV(2)))

\* the steps of the last pipeline call, as its trace lists them
Trace == out.res.trace
NReaders == Len(readers)
\* what the p-th mixin returned for the argument it was given
MixinOut(p) == Mixin_call(mixins[p], Trace[NReaders + p].arg)
\* the mixins among the first upto that returned key k
MixinProducers(k, upto) == {p \in 1..upto : k \in DOMAIN MixinOut(p).value}
\* the mapping accumulated after all readers and the first upto mixins:
\* per key, the last mixin that returned it, else the last reader that did
Accumulated(upto) ==
  [k \in ReaderKeys \cup UNION {DOMAIN MixinOut(p).value : p \in 1..upto} |->
     IF MixinProducers(k, upto) # {}
       THEN MixinOut(Max(MixinProducers(k, upto))).value[k]
       ELSE ReaderOut(Max(Producers(k))).value[k]]

\* C2: mixins run after all readers, in list order; the i-th is given the
\* mapping accumulated so far (reader outputs overlaid by mixins 1..i-1), and
\* its result is merged last-write-wins, other entries kept.
C2_MixinsSeeAccumulated ==
  LastIsCompose =>
    /\ \A j \in 1..Len(Trace) :
         Trace[j].fn = "mixin" =>
           /\ j > NReaders /\ Trace[j].idx = j - NReaders
           /\ \A i \in 1..NReaders : Trace[i].fn = "reader" /\ Trace[i].idx = i
           /\ Trace[j].arg = Accumulated(j - NReaders - 1)
    /\ out.res.status = "ok" =>
         /\ Len(Trace) = NReaders + Len(mixins)
         /\ out.res.value = Accumulated(Len(mixins))

C2_Witness ==
  /\ LastIsCompose /\ mixins = <<"inc", "swap">> /\ Len(readers) = 2
  /\ out.res.status = "ok"
  /\ "txt" \in DOMAIN out.res.value
  /\ Trace[4].arg["sum"] = IntV(3)
  /\ out.res.value["out"] = IntV(3)

\* the outcome of the j-th step of the last pipeline call
StepOut(j) == IF j <= NReaders THEN ReaderOut(j) ELSE MixinOut(j - NReaders)

\* C3: a pipeline call ends in the error of the first step that fails, in
\* order (readers, then mixins); no later step is invoked and no mapping is
\* returned.
C3_FirstFailureAborts ==
  LastIsCompose =>
    /\ Len(Trace) <= NReaders + Len(mixins)
    /\ \A j \in 1..Len(Trace) :
         /\ Trace[j].fn = (IF j <= NReaders THEN "reader" ELSE "mixin")
         /\ Trace[j].idx = (IF j <= NReaders THEN j ELSE j - NReaders)
         /\ j < Len(Trace) => StepOut(j).status = "ok"
    /\ (\E i \in 1..NReaders : ReaderOut(i).status = "raised") => out.res.status = "raised"
    /\ IF out.res.status = "raised"
         THEN /\ Len(Trace) >= 1
              /\ StepOut(Len(Trace)).status = "raised"
              /\ RaisedExactly(StepOut(Len(Trace)).error)
         ELSE /\ Len(Trace) = NReaders + Len(mixins)
              /\ \A j \in 1..Len(Trace) : StepOut(j).status = "ok"

C3_Witness ==
  /\ LastIsCompose /\ Len(readers) = 2 /\ Len(mixins) >= 1
  /\ readers[1].kind = "ImageReader" /\ readers[2].kind = "TextReader"
  /\ ReaderOut(2).status = "raised"
  /\ RaisedExactly("FileNotFoundError")
  /\ Len(Trace) = 1

(*************************** frame properties ******************************)
\* two callees are the same invocation when they are the pipeline, or reader
\* objects of equal configuration
SameCall(c, d) ==
  \/ c = 0 /\ d = 0
  \/ c >= 1 /\ d >= 1 /\ readers[c] = readers[d]

\* C10: an invocation leaves the record and every configuration unchanged,
\* returns a mapping object the caller did not hold before, and has the same
\* outcome as the first invocation of the same callee, whatever was invoked
\* in between.
C10_PureAndFresh ==
  [][/\ row' = row /\ readers' = readers /\ mixins' = mixins
     /\ out'.res.status = "ok" => (out'.id # 0 /\ out'.id \notin Live)
     /\ SameCall(out'.callee, first'.callee) => out'.res = first'.res]_vars

C10_Witness ==
  /\ first.between /\ out.callee = first.callee /\ out.callee >= 1
  /\ Len(readers) = 2 /\ readers[1] # readers[2]
  /\ out.res.status = "ok" /\ out.id # 0

====
